---------------------------- MODULE Spec2Model ----------------------------
(***************************************************************************)
(* A model of OnChainGS's preprocessing core (src/src/core/                *)
(* SplatProcesser.js) and of its driver (src/src/scripts/preprocess.js).   *)
(*                                                                         *)
(* Files are sequences of bytes.  A byte is a string: a one-character      *)
(* string is that ASCII character, and "B0", "B1", ... are bytes of the    *)
(* binary vertex payload (values in 0x80..0xBF, each of which decodes to   *)
(* one replacement character under toString('utf8'), so that string        *)
(* indices and byte indices agree as they do for an ASCII header).         *)
(* Indices are 0-based, as in JavaScript.                                  *)
(*                                                                         *)
(* A JavaScript number that may be non-finite is a record: Fin(n), NaN,    *)
(* PosInf, or JsNull (what JSON.stringify makes of NaN).                   *)
(***************************************************************************)
EXTENDS Integers, Sequences, FiniteSets

-----------------------------------------------------------------------------
(* String literals of the source. *)

S_end_header_nl == <<"e", "n", "d", "_", "h", "e", "a", "d", "e", "r", "\n">>
S_element_vertex == <<"e", "l", "e", "m", "e", "n", "t", " ", "v", "e", "r", "t", "e", "x">>
S_element_vertex_sp == <<"e", "l", "e", "m", "e", "n", "t", " ", "v", "e", "r", "t", "e", "x", " ">>
S_property == <<"p", "r", "o", "p", "e", "r", "t", "y">>
S_f_rest == <<"f", "_", "r", "e", "s", "t", "_">>
T_float32 == <<"f", "l", "o", "a", "t", "3", "2">>
T_float == <<"f", "l", "o", "a", "t">>
T_float64 == <<"f", "l", "o", "a", "t", "6", "4">>
T_uint8 == <<"u", "i", "n", "t", "8">>
T_uchar == <<"u", "c", "h", "a", "r">>
T_int32 == <<"i", "n", "t", "3", "2">>
T_int == <<"i", "n", "t">>
T_uint32 == <<"u", "i", "n", "t", "3", "2">>

-----------------------------------------------------------------------------
(* JavaScript numbers. *)

Fin(n) == [k |-> "fin", n |-> n]
NaN == [k |-> "nan", n |-> 0]
PosInf == [k |-> "inf", n |-> 0]
JsNull == [k |-> "null", n |-> 0]

IsFin(x) == x.k = "fin"

Min2(a, b) == IF a <= b THEN a ELSE b
Max2(a, b) == IF a >= b THEN a ELSE b
Abs(a) == IF a < 0 THEN -a ELSE a

\* Math.ceil(a / b) and Math.floor(a / b) for integers a and b > 0.
CeilDiv(a, b) == -((-a) \div b)
FloorDiv(a, b) == a \div b

SetMin(S) == CHOOSE x \in S : \A y \in S : x <= y

-----------------------------------------------------------------------------
(* JavaScript strings and Buffers. *)

\* s.slice(a, b) for a, b >= 0
Slice(s, a, b) ==
    LET lo == Min2(Max2(a, 0), Len(s))
        hi == Min2(Max2(b, 0), Len(s))
    IN  IF hi <= lo THEN <<>> ELSE SubSeq(s, lo + 1, hi)

MatchAt(s, pat, i) ==
    /\ i >= 0
    /\ i + Len(pat) <= Len(s)
    /\ SubSeq(s, i + 1, i + Len(pat)) = pat

\* s.indexOf(pat, from): the first index >= from where pat occurs, or -1
IndexOfFrom(s, pat, from) ==
    LET hits == {i \in from..(Len(s) - Len(pat)) : MatchAt(s, pat, i)}
    IN  IF hits = {} THEN -1 ELSE SetMin(hits)

IndexOf(s, pat) == IndexOfFrom(s, pat, 0)

Includes(s, pat) == IndexOf(s, pat) # -1

StartsWith(s, pat) == MatchAt(s, pat, 0)

EndsWith(s, pat) == MatchAt(s, pat, Len(s) - Len(pat))

\* s.split(c) for a one-character separator c
RECURSIVE StrSplit(_, _)
StrSplit(s, c) ==
    LET i == IndexOf(s, <<c>>)
    IN  IF i = -1 THEN <<s>>
        ELSE <<Slice(s, 0, i)>> \o StrSplit(Slice(s, i + 1, Len(s)), c)

\* parts.join(c)
RECURSIVE StrJoin(_, _)
StrJoin(parts, c) ==
    IF Len(parts) = 0 THEN <<>>
    ELSE IF Len(parts) = 1 THEN parts[1]
    ELSE parts[1] \o <<c>> \o StrJoin(Tail(parts), c)

WhiteSpace == {" ", "\t", "\n", "\r"}

RECURSIVE TrimStart(_)
TrimStart(s) ==
    IF s # <<>> /\ Head(s) \in WhiteSpace THEN TrimStart(Tail(s)) ELSE s

RECURSIVE TrimEnd(_)
TrimEnd(s) ==
    IF s # <<>> /\ s[Len(s)] \in WhiteSpace
    THEN TrimEnd(SubSeq(s, 1, Len(s) - 1)) ELSE s

\* s.trim()
Trim(s) == TrimEnd(TrimStart(s))

Digits == <<"0", "1", "2", "3", "4", "5", "6", "7", "8", "9">>

IsDigit(c) == \E d \in 1..10 : Digits[d] = c

DigitVal(c) == (CHOOSE d \in 1..10 : Digits[d] = c) - 1

\* the longest run of digits of s that starts at index i
RECURSIVE DigitRun(_, _)
DigitRun(s, i) ==
    IF i < Len(s) /\ IsDigit(s[i + 1])
    THEN <<s[i + 1]>> \o DigitRun(s, i + 1) ELSE <<>>

RECURSIVE DigitsVal(_)
DigitsVal(ds) ==
    IF ds = <<>> THEN 0
    ELSE 10 * DigitsVal(SubSeq(ds, 1, Len(ds) - 1)) + DigitVal(ds[Len(ds)])

\* parseInt(s): leading white space, an optional sign, then decimal digits;
\* NaN when no digit follows.
ParseInt(s) ==
    LET t == TrimStart(s)
        neg == t # <<>> /\ Head(t) = "-"
        u == IF t # <<>> /\ Head(t) \in {"-", "+"} THEN Tail(t) ELSE t
        ds == DigitRun(u, 0)
    IN  IF ds = <<>> THEN NaN
        ELSE Fin(IF neg THEN -DigitsVal(ds) ELSE DigitsVal(ds))

\* parseInt(parts[j]) of an array: parts[j] is undefined past the end
ParseIntAt(parts, j) ==
    IF j < Len(parts) THEN ParseInt(parts[j + 1]) ELSE NaN

\* `${n}` of an integer
RECURSIVE NatToString(_)
NatToString(n) ==
    IF n < 10 THEN <<Digits[n + 1]>>
    ELSE NatToString(n \div 10) \o <<Digits[(n % 10) + 1]>>

IntToString(n) == IF n < 0 THEN <<"-">> \o NatToString(-n) ELSE NatToString(n)

\* content.match(/element vertex (\d+)/): the captured digits of the
\* leftmost match, or <<>> for null
RECURSIVE VertexMatchFrom(_, _)
VertexMatchFrom(s, from) ==
    LET i == IndexOfFrom(s, S_element_vertex_sp, from)
    IN  IF i = -1 THEN <<>>
        ELSE LET ds == DigitRun(s, i + Len(S_element_vertex_sp))
             IN  IF ds # <<>> THEN ds ELSE VertexMatchFrom(s, i + 1)

VertexMatch(s) == VertexMatchFrom(s, 0)

-----------------------------------------------------------------------------
(* Constants of SplatProcesser.js, in hundredths: 0.9 and 1.25. *)

EXPECTED_COMPRESSION_RATE == 90
BASE64_OVERHEAD == 125

-----------------------------------------------------------------------------
(* The header: getTypeSize, readPlyHeader, createChunkHeader. *)

\* typeSizes[typeName] || 4
GetTypeSize(typeName) ==
    IF typeName \in {T_float32, T_float, T_int32, T_int, T_uint32} THEN 4
    ELSE IF typeName = T_float64 THEN 8
    ELSE IF typeName \in {T_uint8, T_uchar} THEN 1
    ELSE 4

\* Map.prototype.set on a Map kept as the sequence of its entries, in
\* insertion order: a known key keeps its place and takes the new value
MapSet(m, key, val) ==
    IF \E j \in 1..Len(m) : m[j][1] = key
    THEN [j \in 1..Len(m) |-> IF m[j][1] = key THEN <<key, val>> ELSE m[j]]
    ELSE Append(m, <<key, val>>)

\* one pass of the loop over headerLines; acc holds vertexCount,
\* propertyTypes and the length of extraFNames
ScanLine(line, acc) ==
    LET trimmedLine == Trim(line)
        parts == StrSplit(trimmedLine, " ")
    IN  IF trimmedLine = <<>> THEN acc
        ELSE IF Includes(trimmedLine, S_element_vertex)
        THEN [acc EXCEPT !.vertexCount = ParseIntAt(parts, 2)]
        ELSE IF StartsWith(trimmedLine, S_property) /\ Len(parts) >= 3
        THEN [acc EXCEPT
                !.propertyTypes = MapSet(@, parts[3], parts[2]),
                !.extraFNames = IF StartsWith(parts[3], S_f_rest) THEN @ + 1 ELSE @]
        ELSE acc

RECURSIVE ScanHeader(_, _)
ScanHeader(lines, acc) ==
    IF lines = <<>> THEN acc
    ELSE ScanHeader(Tail(lines), ScanLine(Head(lines), acc))

ShDegree(extra, old) ==
    IF extra = 0 THEN 0
    ELSE IF extra = 9 THEN 1
    ELSE IF extra = 24 THEN 2
    ELSE IF extra = 45 THEN 3
    ELSE old

\* readPlyHeader on the bytes `data` of the input file, by a processer whose
\* fields are p: the fields after the call, and the vertexData it returns
ReadPlyHeader(data, p) ==
    LET headerEndIndex == IndexOf(data, S_end_header_nl) + Len(S_end_header_nl)
        originalHeader == Slice(data, 0, headerEndIndex)
        acc == ScanHeader(StrSplit(originalHeader, "\n"),
                          [vertexCount |-> p.vertexCount,
                           propertyTypes |-> p.propertyTypes,
                           extraFNames |-> 0])
    IN  [originalHeader |-> originalHeader,
         vertexCount |-> acc.vertexCount,
         propertyTypes |-> acc.propertyTypes,
         maxShDegree |-> ShDegree(acc.extraFNames, p.maxShDegree),
         vertexData |-> Slice(data, headerEndIndex, Len(data))]

RewriteNumeralOnly(line, numVertices) ==
    LET i == IndexOf(line, S_element_vertex_sp)
        at == i + Len(S_element_vertex_sp)
        ds == DigitRun(line, at)
    IN  IF i = -1 THEN line
        ELSE Slice(line, 0, at) \o IntToString(numVertices)
             \o Slice(line, at + Len(ds), Len(line))

\* the callback of lines.map
RewriteLine(line, numVertices) ==
    IF Includes(line, S_element_vertex)
    THEN S_element_vertex_sp \o IntToString(numVertices)
    ELSE line

CreateChunkHeader(originalHeader, numVertices) ==
    LET lines == StrSplit(originalHeader, "\n")
        modifiedLines == [j \in 1..Len(lines) |-> RewriteLine(lines[j], numVertices)]
        header == StrJoin(modifiedLines, "\n")
    IN  IF EndsWith(header, <<"\n">>) THEN header ELSE header \o <<"\n">>

\* writeChunkPly: the bytes written to outputFile
ChunkPly(originalHeader, chunkData, numVertices) ==
    CreateChunkHeader(originalHeader, numVertices) \o chunkData

-----------------------------------------------------------------------------
(* The sizing of split. *)

RECURSIVE SumTypeSizes(_)
SumTypeSizes(m) ==
    IF m = <<>> THEN 0 ELSE GetTypeSize(Head(m)[2]) + SumTypeSizes(Tail(m))

BytesPerVertex(propertyTypes) == SumTypeSizes(propertyTypes)

\* the sizing with the rate taken as the share that is kept, not the share
\* that is saved: bytesPerVertex * EXPECTED_COMPRESSION_RATE * BASE64_OVERHEAD
VerticesPerChunkRateKept(targetSizeBytes, headerSize, bytesPerVertex) ==
    LET availableSize == targetSizeBytes - headerSize
        den == bytesPerVertex * EXPECTED_COMPRESSION_RATE * BASE64_OVERHEAD
    IN  IF den = 0
        THEN IF availableSize > 0 THEN PosInf
             ELSE IF availableSize < 0 THEN Fin(1)
             ELSE NaN
        ELSE Fin(Max2(1, FloorDiv(availableSize * 100 * 100, den)))

\* Math.max(1, Math.floor(availableSize / (bytesPerVertex *
\*     (1 - EXPECTED_COMPRESSION_RATE) * BASE64_OVERHEAD))).
\* The divisor is bytesPerVertex / 8 up to a relative error below 1e-15 and
\* is never above it, so the floor is that of the exact quotient for every
\* availableSize below 1e14; a zero divisor gives an infinity or NaN.
VerticesPerChunk(targetSizeBytes, headerSize, bytesPerVertex) ==
    LET availableSize == targetSizeBytes - headerSize
        den == bytesPerVertex * (100 - EXPECTED_COMPRESSION_RATE) * BASE64_OVERHEAD
    IN  IF den = 0
        THEN IF availableSize > 0 THEN PosInf
             ELSE IF availableSize < 0 THEN Fin(1)
             ELSE NaN
        ELSE Fin(Max2(1, FloorDiv(availableSize * 100 * 100, den)))

\* Math.ceil(this.vertexCount / verticesPerChunk)
NumChunks(vertexCount, verticesPerChunk) ==
    IF vertexCount.k = "nan" \/ verticesPerChunk.k = "nan" THEN NaN
    ELSE IF verticesPerChunk.k = "inf" THEN Fin(0)
    ELSE Fin(CeilDiv(vertexCount.n, verticesPerChunk.n))

\* i < x, which is false when x is NaN
LoopLt(i, x) == x.k = "inf" \/ (x.k = "fin" /\ i < x.n)

\* the body of the first loop without the Math.min of endIdx
ChunkRangeUnclamped(i, verticesPerChunk, vertexCount, vertexData) ==
    LET startIdx == i * verticesPerChunk
        endIdx == (i + 1) * verticesPerChunk
        startByte == (startIdx * Len(vertexData)) \div vertexCount
        endByte == (endIdx * Len(vertexData)) \div vertexCount
    IN  [startIdx |-> startIdx,
         endIdx |-> endIdx,
         numVertices |-> endIdx - startIdx,
         chunkData |-> Slice(vertexData, startByte, endByte)]

\* the vertex range and the bytes of chunk i (the body of the first loop);
\* vertexData.length / vertexCount is exact for the inputs of this model,
\* whose payload lengths are multiples of their vertex counts
ChunkRange(i, verticesPerChunk, vertexCount, vertexData) ==
    LET startIdx == i * verticesPerChunk
        endIdx == Min2((i + 1) * verticesPerChunk, vertexCount)
        startByte == (startIdx * Len(vertexData)) \div vertexCount
        endByte == (endIdx * Len(vertexData)) \div vertexCount
    IN  [startIdx |-> startIdx,
         endIdx |-> endIdx,
         numVertices |-> endIdx - startIdx,
         chunkData |-> Slice(vertexData, startByte, endByte)]

-----------------------------------------------------------------------------
(* mergeChunks and the grouping of createGroups. *)

\* readChunkPly: the vertexData of a chunk file
ReadChunkPly(data) ==
    LET headerEndIndex == IndexOf(data, S_end_header_nl) + Len(S_end_header_nl)
    IN  Slice(data, headerEndIndex, Len(data))

\* the vertex count mergeChunks adds for one chunk file
ChunkVertices(data) ==
    LET vertexMatch == VertexMatch(data)
    IN  IF vertexMatch # <<>> THEN DigitsVal(vertexMatch) ELSE 0

\* mergeChunks over the chunk files `dir` (index -> bytes), all of them
\* present: the bytes written to outputPath and the vertexCount returned
RECURSIVE MergeLoop(_, _, _)
MergeLoop(chunkIndices, dir, acc) ==
    IF chunkIndices = <<>> THEN acc
    ELSE LET data == dir[Head(chunkIndices)]
         IN  MergeLoop(Tail(chunkIndices), dir,
                 [mergedVertexData |-> acc.mergedVertexData \o ReadChunkPly(data),
                  totalVertices |-> acc.totalVertices + ChunkVertices(data)])

MergeChunks(chunkIndices, dir, originalHeader) ==
    LET acc == MergeLoop(chunkIndices, dir,
                   [mergedVertexData |-> <<>>, totalVertices |-> 0])
    IN  [bytes |-> CreateChunkHeader(originalHeader, acc.totalVertices)
                   \o acc.mergedVertexData,
         vertexCount |-> acc.totalVertices]

\* groupSize === -1 ? files.length : groupSize
EffectiveGroupSize(groupSize, nFiles) ==
    IF groupSize = -1 THEN nFiles ELSE groupSize

\* the count of the full groups only: Math.floor in place of Math.ceil
TotalGroupsFloor(nFiles, effectiveGroupSize) ==
    IF effectiveGroupSize = 0 THEN NaN
    ELSE Fin(FloorDiv(nFiles, effectiveGroupSize))

\* Math.ceil(files.length / effectiveGroupSize)
TotalGroups(nFiles, effectiveGroupSize) ==
    IF effectiveGroupSize = 0 THEN NaN
    ELSE Fin(CeilDiv(nFiles, effectiveGroupSize))

\* Array.from({length: Math.min(effectiveGroupSize, files.length - i)},
\*            (_, idx) => i + idx)
GroupIndices(i, effectiveGroupSize, nFiles) ==
    [idx \in 1..Min2(effectiveGroupSize, nFiles - i) |-> i + idx - 1]

\* the group named by its first chunk index, in place of the quotient
GroupIdFirstIndex(i, effectiveGroupSize) == i

\* Math.floor(i / effectiveGroupSize)
GroupId(i, effectiveGroupSize) == FloorDiv(i, effectiveGroupSize)

\* writeFileSync(path, bytes) into a directory kept as index -> bytes
WriteFile(dir, index, bytes) ==
    [j \in (DOMAIN dir) \cup {index} |-> IF j = index THEN bytes ELSE dir[j]]

-----------------------------------------------------------------------------
(* Input files: an ASCII header and a binary payload. *)

L_ply == <<"p", "l", "y">>
L_vertex3 == <<"e", "l", "e", "m", "e", "n", "t", " ", "v", "e", "r", "t", "e", "x", " ", "3">>
L_vertex2 == <<"e", "l", "e", "m", "e", "n", "t", " ", "v", "e", "r", "t", "e", "x", " ", "2">>
L_vertex0 == <<"e", "l", "e", "m", "e", "n", "t", " ", "v", "e", "r", "t", "e", "x", " ", "0">>
L_vertex2_padded == <<" ", "e", "l", "e", "m", "e", "n", "t", " ", "v", "e", "r", "t", "e", "x", " ", "2", " ">>
L_comment == <<"c", "o", "m", "m", "e", "n", "t", " ", "e", "l", "e", "m", "e", "n", "t", " ", "v", "e", "r", "t", "e", "x">>
L_float_x == <<"p", "r", "o", "p", "e", "r", "t", "y", " ", "f", "l", "o", "a", "t", " ", "x">>
L_uchar_r == <<"p", "r", "o", "p", "e", "r", "t", "y", " ", "u", "c", "h", "a", "r", " ", "r">>
L_half_x == <<"p", "r", "o", "p", "e", "r", "t", "y", " ", "h", "a", "l", "f", " ", "x">>
L_end_header == <<"e", "n", "d", "_", "h", "e", "a", "d", "e", "r">>

HeaderOf(lines) == StrJoin(lines, "\n") \o <<"\n">>

Payload(n) == [j \in 1..n |-> <<"B0", "B1", "B2", "B3", "B4", "B5", "B6", "B7", "B8", "B9", "B10", "B11">>[j]]

\* three vertices of one float each
FileFloat == HeaderOf(<<L_ply, L_vertex3, L_float_x, L_end_header>>) \o Payload(12)
\* two vertices of one uchar each, a comment that mentions "element vertex"
\* before the element line
FileCommentBefore == HeaderOf(<<L_ply, L_comment, L_vertex2, L_uchar_r, L_end_header>>) \o Payload(2)
\* the same comment after the element line
FileCommentAfter == HeaderOf(<<L_ply, L_vertex2, L_comment, L_uchar_r, L_end_header>>) \o Payload(2)
\* white space around the element line
FilePadded == HeaderOf(<<L_ply, L_vertex2_padded, L_uchar_r, L_end_header>>) \o Payload(2)
\* no header terminator
FileNoTerminator == HeaderOf(<<L_ply, L_vertex2, L_uchar_r>>) \o Payload(2)
\* no "element vertex" line
FileNoVertexLine == HeaderOf(<<L_ply, L_uchar_r, L_end_header>>) \o Payload(2)
\* a property of a type getTypeSize does not list (2 bytes wide)
FileUnknownType == HeaderOf(<<L_ply, L_vertex2, L_half_x, L_end_header>>) \o Payload(4)
\* no vertex at all
FileEmpty == HeaderOf(<<L_ply, L_vertex0, L_uchar_r, L_end_header>>)

InputFiles == {FileFloat, FileCommentBefore, FileCommentAfter, FilePadded,
               FileNoTerminator, FileNoVertexLine, FileUnknownType, FileEmpty}

-----------------------------------------------------------------------------
(* Bounds of the model. *)

\* invocations of preprocess.js in one behaviour
MaxRuns == 2
\* targetSizeBytes ranges over the header's length plus 0..MaxTargetDelta
MaxTargetDelta == 2
\* groupSize ranges over -1 and 1..MaxGroupSize
MaxGroupSize == 2
\* I/O errors and loader rejections in one behaviour
MaxFaults == 1

-----------------------------------------------------------------------------
(* The state. *)

VARIABLES
    inputFile,      \* the bytes of config.split.inputFile
    chunkDir,       \* outputs/plysplit/chunks: chunk index -> bytes
    groupDir,       \* outputs/plysplit/grouped_chunks: group id -> bytes
    headerInfo,     \* outputs/header_info.json
    manifest,       \* outputs/chunks_metadata.json
    config,         \* the configuration of the running invocation
    proc,           \* the fields of the SplatProcesser
    pc,             \* where the invocation is
    sp,             \* the locals of split
    splitResult,    \* how split ended in this invocation
    cg,             \* the locals of createGroups
    groupsResult,   \* how createGroups ended in this invocation
    runs,           \* invocations started
    faults,         \* I/O errors and loader rejections so far
    emitted         \* history: the chunk indices the latest split wrote

vars == <<inputFile, chunkDir, groupDir, headerInfo, manifest, config, proc,
          pc, sp, splitResult, cg, groupsResult, runs, faults, emitted>>

NoFile == [exists |-> FALSE]
EmptyDir == [j \in {} |-> <<>>]

\* the constructor of SplatProcesser
NewProcesser ==
    [originalHeader |-> <<>>,
     vertexCount |-> Fin(0),
     propertyTypes |-> <<>>,
     maxShDegree |-> 0]

NoSplit ==
    [verticesPerChunk |-> Fin(0), bytesPerVertex |-> 0, headerSize |-> 0,
     numChunks |-> Fin(0), vertexData |-> <<>>, i |-> 0,
     numVertices |-> 0, totalProcessedVertices |-> 0,
     verifiedVertices |-> 0, failedChunks |-> <<>>]

NoGroups ==
    [files |-> 0, effectiveGroupSize |-> 0, totalGroups |-> Fin(0), i |-> 0,
     groupsMetadata |-> <<>>, successCount |-> 0, failureCount |-> 0,
     failedGroups |-> <<>>, attempted |-> <<>>, groupMeta |-> <<>>]

NoResult == [status |-> "none"]

Operations == {"split", "merge", "all"}
GroupSizes == {-1} \cup (1..MaxGroupSize)
\* the header's length as readPlyHeader finds it in the input file
InputHeaderSize == Len(ReadPlyHeader(inputFile, NewProcesser).originalHeader)
TargetSizes == {InputHeaderSize + d : d \in 0..MaxTargetDelta}

Init ==
    /\ inputFile \in InputFiles
    /\ chunkDir = EmptyDir
    /\ groupDir = EmptyDir
    /\ headerInfo = NoFile
    /\ manifest = NoFile
    /\ config = [operation |-> "all", targetSizeBytes |-> 1, groupSize |-> -1]
    /\ proc = NewProcesser
    /\ pc = "idle"
    /\ sp = NoSplit
    /\ splitResult = NoResult
    /\ cg = NoGroups
    /\ groupsResult = NoResult
    /\ runs = 0
    /\ faults = 0
    /\ emitted = {}

-----------------------------------------------------------------------------
(* preprocess.js: main, runSplit, runMerge. *)

\* main, up to runSplit or runMerge: a configuration that validateConfig
\* accepts and a new SplatProcesser.  The part of the configuration that the
\* operation does not read is left at its default.  An invocation that met
\* an I/O error or a loader rejection is the last one of its behaviour.
Main(operation, targetSizeBytes, groupSize) ==
    /\ pc = "idle"
    /\ runs < MaxRuns
    /\ faults = 0
    /\ operation \in {"split", "all"} \/ targetSizeBytes = InputHeaderSize
    /\ operation \in {"merge", "all"} \/ groupSize = -1
    /\ runs' = runs + 1
    /\ config' = [operation |-> operation,
                  targetSizeBytes |-> targetSizeBytes,
                  groupSize |-> groupSize]
    /\ proc' = NewProcesser
    /\ sp' = NoSplit
    /\ cg' = NoGroups
    /\ splitResult' = NoResult
    /\ groupsResult' = NoResult
    /\ pc' = IF operation \in {"split", "all"} THEN "runSplit" ELSE "createGroups"
    /\ UNCHANGED <<inputFile, chunkDir, groupDir, headerInfo, manifest, faults,
                   emitted>>

ProcFields(r) ==
    [originalHeader |-> r.originalHeader,
     vertexCount |-> r.vertexCount,
     propertyTypes |-> r.propertyTypes,
     maxShDegree |-> r.maxShDegree]

\* runSplit: await processer.readPlyHeader()
RunSplit ==
    /\ pc = "runSplit"
    /\ proc' = ProcFields(ReadPlyHeader(inputFile, proc))
    /\ pc' = "split"
    /\ UNCHANGED <<inputFile, chunkDir, groupDir, headerInfo, manifest, config,
                   sp, splitResult, cg, groupsResult, runs, faults, emitted>>

-----------------------------------------------------------------------------
(* split. *)

\* split, up to the first loop: the sizing and the second readPlyHeader
Split ==
    /\ pc = "split"
    /\ LET bytesPerVertex == BytesPerVertex(proc.propertyTypes)
           headerSize == Len(proc.originalHeader)
           verticesPerChunk ==
               VerticesPerChunk(config.targetSizeBytes, headerSize, bytesPerVertex)
           r == ReadPlyHeader(inputFile, proc)
       IN  /\ proc' = ProcFields(r)
           /\ sp' = [NoSplit EXCEPT
                       !.verticesPerChunk = verticesPerChunk,
                       !.bytesPerVertex = bytesPerVertex,
                       !.headerSize = headerSize,
                       !.numChunks = NumChunks(r.vertexCount, verticesPerChunk),
                       !.vertexData = r.vertexData]
    /\ pc' = "emit"
    /\ emitted' = {}
    /\ UNCHANGED <<inputFile, chunkDir, groupDir, headerInfo, manifest, config,
                   splitResult, cg, groupsResult, runs, faults>>

\* one pass of the first loop: chunk i is cut out and written
EmitChunk ==
    /\ pc = "emit"
    /\ LoopLt(sp.i, sp.numChunks)
    /\ LET c == ChunkRange(sp.i, sp.verticesPerChunk.n, proc.vertexCount.n,
                           sp.vertexData)
       IN  /\ chunkDir' = WriteFile(chunkDir, sp.i,
                              ChunkPly(proc.originalHeader, c.chunkData, c.numVertices))
           /\ sp' = [sp EXCEPT
                       !.i = @ + 1,
                       !.numVertices = c.numVertices,
                       !.totalProcessedVertices = @ + c.numVertices]
    /\ emitted' = emitted \cup {sp.i}
    /\ UNCHANGED <<inputFile, groupDir, headerInfo, manifest, config, proc, pc,
                   splitResult, cg, groupsResult, runs, faults>>

\* the first loop left after any chunk, the verification pass started early
EmitDoneEarly ==
    /\ pc = "emit"
    /\ sp.i >= 1 \/ ~LoopLt(sp.i, sp.numChunks)
    /\ sp' = [sp EXCEPT !.i = 0, !.verifiedVertices = 0, !.failedChunks = <<>>]
    /\ pc' = "verify"
    /\ UNCHANGED <<inputFile, chunkDir, groupDir, headerInfo, manifest, config,
                   proc, splitResult, cg, groupsResult, runs, faults, emitted>>

\* the first loop ends; the verification pass starts
EmitDone ==
    /\ pc = "emit"
    /\ ~LoopLt(sp.i, sp.numChunks)
    /\ sp' = [sp EXCEPT !.i = 0, !.verifiedVertices = 0, !.failedChunks = <<>>]
    /\ pc' = "verify"
    /\ UNCHANGED <<inputFile, chunkDir, groupDir, headerInfo, manifest, config,
                   proc, splitResult, cg, groupsResult, runs, faults, emitted>>

\* one pass of the second loop: the count of chunk i is read back;
\* readError is readFileSync throwing
VerifyChunkCount(readError) ==
    /\ pc = "verify"
    /\ LoopLt(sp.i, sp.numChunks)
    /\ readError => faults < MaxFaults
    /\ faults' = IF readError THEN faults + 1 ELSE faults
    /\ IF readError \/ sp.i \notin DOMAIN chunkDir
       THEN sp' = [sp EXCEPT
                     !.i = @ + 1,
                     !.failedChunks = Append(@, [index |-> sp.i, error |-> "read error"])]
       ELSE LET vertexMatch == VertexMatch(chunkDir[sp.i])
            IN  IF vertexMatch # <<>>
                THEN sp' = [sp EXCEPT
                              !.i = @ + 1,
                              !.verifiedVertices = @ + DigitsVal(vertexMatch)]
                ELSE sp' = [sp EXCEPT
                              !.i = @ + 1,
                              !.failedChunks = Append(@, [index |-> sp.i,
                                                         error |-> "No vertex count found"])]
    /\ UNCHANGED <<inputFile, chunkDir, groupDir, headerInfo, manifest, config,
                   proc, pc, splitResult, cg, groupsResult, runs, emitted>>

\* Math.abs(this.vertexCount - verifiedVertices)
VertexDiff(vertexCount, verifiedVertices) ==
    IF IsFin(vertexCount) THEN Fin(Abs(vertexCount.n - verifiedVertices)) ELSE NaN

\* a gate that never fires
MismatchNever(vertexDiff) == FALSE

\* vertexDiff > 0, which is false of NaN
MismatchDetected(vertexDiff) == IsFin(vertexDiff) /\ vertexDiff.n > 0

\* JSON.parse(JSON.stringify(x)) of a number: NaN and the infinities are
\* written as null
JsonNumber(x) == IF IsFin(x) THEN x ELSE JsNull

\* saveHeaderInfo: the content of header_info.json
SavedHeaderInfo(p) ==
    [exists |-> TRUE,
     originalHeader |-> p.originalHeader,
     vertexCount |-> JsonNumber(p.vertexCount),
     propertyTypes |-> p.propertyTypes,
     maxShDegree |-> p.maxShDegree]

\* the second loop ends: the totals are compared, and split throws or saves
\* the header and returns
SplitFinish ==
    /\ pc = "verify"
    /\ ~LoopLt(sp.i, sp.numChunks)
    /\ LET vertexDiff == VertexDiff(proc.vertexCount, sp.verifiedVertices)
       IN  IF MismatchDetected(vertexDiff)
           THEN /\ splitResult' = [status |-> "threw",
                                   error |-> "Vertex count mismatch",
                                   expected |-> proc.vertexCount,
                                   got |-> sp.verifiedVertices,
                                   difference |-> vertexDiff.n]
                /\ pc' = "idle"
                /\ UNCHANGED headerInfo
           ELSE /\ headerInfo' = SavedHeaderInfo(proc)
                /\ splitResult' = [status |-> "returned",
                                   numChunks |-> sp.numChunks,
                                   totalVertices |-> sp.verifiedVertices,
                                   processedVertices |-> sp.totalProcessedVertices,
                                   failedChunks |-> sp.failedChunks]
                /\ pc' = IF config.operation = "all" THEN "createGroups" ELSE "idle"
    /\ UNCHANGED <<inputFile, chunkDir, groupDir, manifest, config, proc, sp,
                   cg, groupsResult, runs, faults, emitted>>

-----------------------------------------------------------------------------
(* createGroups. *)

\* n.toString().padStart(6, '0')
PadStart6(n) ==
    LET str == IntToString(n)
    IN  [j \in 1..Max2(0, 6 - Len(str)) |-> "0"] \o str

\* `chunk_${...}.ply` and `group_${...}.ply`; a directory of the model is
\* keyed by the number in the name
ChunkFileName(index) ==
    <<"c", "h", "u", "n", "k", "_">> \o PadStart6(index) \o <<".", "p", "l", "y">>
GroupFileName(groupId) ==
    <<"g", "r", "o", "u", "p", "_">> \o PadStart6(groupId) \o <<".", "p", "l", "y">>

\* loadHeaderInfo, header_info.json being there
LoadedHeaderInfo(info) ==
    [originalHeader |-> info.originalHeader,
     vertexCount |-> info.vertexCount,
     propertyTypes |-> info.propertyTypes,
     maxShDegree |-> info.maxShDegree]

\* loadHeaderInfo that swallows the missing file and reports success
LoadHeaderInfoAlwaysTrue(p, info) ==
    [loaded |-> TRUE,
     proc |-> IF info.exists THEN LoadedHeaderInfo(info) ELSE p]

\* loadHeaderInfo: true with the fields restored, or false, the fields left
\* alone, when header_info.json cannot be read
LoadHeaderInfo(p, info) ==
    IF info.exists
    THEN [loaded |-> TRUE, proc |-> LoadedHeaderInfo(info)]
    ELSE [loaded |-> FALSE, proc |-> p]

\* if (!this.originalHeader) { headerLoaded = await this.loadHeaderInfo() ... }
HeaderForGroups(p, info) ==
    IF p.originalHeader = <<>> THEN LoadHeaderInfo(p, info)
    ELSE [loaded |-> TRUE, proc |-> p]

\* createGroups, up to its loop: the header is loaded when none is known,
\* the chunk files are listed and the groups are counted
CreateGroups ==
    /\ pc = "createGroups"
    /\ IF ~HeaderForGroups(proc, headerInfo).loaded
       THEN /\ groupsResult' = [status |-> "threw",
                                error |-> "Header information not found. Please run split operation first."]
            /\ pc' = "idle"
            /\ UNCHANGED <<proc, cg>>
       ELSE /\ proc' = HeaderForGroups(proc, headerInfo).proc
            /\ LET nFiles == Cardinality(DOMAIN chunkDir)
                   effectiveGroupSize == EffectiveGroupSize(config.groupSize, nFiles)
               IN  cg' = [NoGroups EXCEPT
                            !.files = nFiles,
                            !.effectiveGroupSize = effectiveGroupSize,
                            !.totalGroups = TotalGroups(nFiles, effectiveGroupSize)]
            /\ pc' = "group"
            /\ UNCHANGED groupsResult
    /\ UNCHANGED <<inputFile, chunkDir, groupDir, headerInfo, manifest, config,
                   sp, splitResult, runs, faults, emitted>>

\* one pass of the loop, up to verifyChunk: the group's chunks are merged and
\* written; ioError is a read or a write of mergeChunks throwing
MergeGroup(ioError) ==
    /\ pc = "group"
    /\ cg.i < cg.files
    /\ ioError => faults < MaxFaults
    /\ faults' = IF ioError THEN faults + 1 ELSE faults
    /\ LET groupIndices == GroupIndices(cg.i, cg.effectiveGroupSize, cg.files)
           groupId == GroupId(cg.i, cg.effectiveGroupSize)
           result == MergeChunks(groupIndices, chunkDir, proc.originalHeader)
       IN  IF ioError \/ \E j \in 1..Len(groupIndices) : groupIndices[j] \notin DOMAIN chunkDir
           THEN /\ cg' = [cg EXCEPT
                            !.i = @ + cg.effectiveGroupSize,
                            !.failureCount = @ + 1,
                            !.failedGroups = Append(@, [groupId |-> groupId,
                                                        error |-> "read or write error"]),
                            !.attempted = Append(@, [groupId |-> groupId, chunks |-> groupIndices])]
                /\ UNCHANGED <<groupDir, pc>>
           ELSE /\ groupDir' = WriteFile(groupDir, groupId, result.bytes)
                /\ cg' = [cg EXCEPT
                            !.attempted = Append(@, [groupId |-> groupId, chunks |-> groupIndices]),
                            !.groupMeta = <<[groupId |-> groupId,
                                            path |-> GroupFileName(groupId),
                                            vertexCount |-> result.vertexCount,
                                            chunks |-> [j \in 1..Len(groupIndices) |->
                                                [index |-> groupIndices[j],
                                                 filename |-> ChunkFileName(groupIndices[j])]]]>>]
                /\ pc' = "groupVerify"
    /\ UNCHANGED <<inputFile, chunkDir, headerInfo, manifest, config, proc, sp,
                   splitResult, groupsResult, runs, emitted>>

\* the rest of the pass: verifyChunk hands the merged file to the loader of
\* spz-js, whose verdict is isValid
VerifyGroup(isValid) ==
    /\ pc = "groupVerify"
    /\ ~isValid => faults < MaxFaults
    /\ faults' = IF isValid THEN faults ELSE faults + 1
    /\ LET groupMeta == cg.groupMeta[1]
       IN  IF isValid
           THEN cg' = [cg EXCEPT
                         !.i = @ + cg.effectiveGroupSize,
                         !.successCount = @ + 1,
                         !.groupsMetadata = Append(@, groupMeta),
                         !.groupMeta = <<>>]
           ELSE cg' = [cg EXCEPT
                         !.i = @ + cg.effectiveGroupSize,
                         !.failureCount = @ + 1,
                         !.failedGroups = Append(@, [groupId |-> groupMeta.groupId,
                                                     error |-> "Failed verification after merge"]),
                         !.groupMeta = <<>>]
    /\ pc' = "group"
    /\ UNCHANGED <<inputFile, chunkDir, groupDir, headerInfo, manifest, config,
                   proc, sp, splitResult, groupsResult, runs, emitted>>

\* the loop ends: the manifest is written and createGroups returns
GroupsFinish ==
    /\ pc = "group"
    /\ ~(cg.i < cg.files)
    /\ manifest' = [exists |-> TRUE,
                    originalNodeCount |-> cg.files,
                    totalGroups |-> JsonNumber(cg.totalGroups),
                    groupSize |-> config.groupSize,
                    nodesPerGroup |-> cg.effectiveGroupSize,
                    successfulGroups |-> cg.successCount,
                    failedGroups |-> cg.failedGroups,
                    groups |-> cg.groupsMetadata]
    /\ groupsResult' = [status |-> "returned",
                        groups |-> cg.groupsMetadata,
                        total |-> cg.totalGroups,
                        success |-> cg.successCount,
                        failed |-> cg.failureCount,
                        failedGroups |-> cg.failedGroups]
    /\ pc' = "idle"
    /\ UNCHANGED <<inputFile, chunkDir, groupDir, headerInfo, config, proc, sp,
                   splitResult, cg, runs, faults, emitted>>

-----------------------------------------------------------------------------

Next ==
    \/ /\ pc = "idle"
       /\ runs < MaxRuns
       /\ \E operation \in Operations, targetSizeBytes \in TargetSizes,
             groupSize \in GroupSizes :
               Main(operation, targetSizeBytes, groupSize)
    \/ RunSplit
    \/ Split
    \/ EmitChunk
    \/ EmitDone
    \/ \E readError \in BOOLEAN : VerifyChunkCount(readError)
    \/ SplitFinish
    \/ CreateGroups
    \/ \E ioError \in BOOLEAN : MergeGroup(ioError)
    \/ \E isValid \in BOOLEAN : VerifyGroup(isValid)
    \/ GroupsFinish

Spec == Init /\ [][Next]_vars

-----------------------------------------------------------------------------
(* The arithmetic of split on its own: the sizing and the vertex ranges of  *)
(* the first loop, for inputs given as numbers (a header length, a schema, *)
(* a vertex count) instead of as the bytes of a file.                      *)

\* targetSizeBytes ranges over 1..MaxSizerTarget
MaxSizerTarget == 8
\* the vertex count ranges over 0..MaxSizerVertices
MaxSizerVertices == 4
\* the header lengths are SizerHeaderSize and SizerHeaderSize + 1
SizerHeaderSize == 4

SchemaOf(types) == [j \in 1..Len(types) |-> <<IntToString(j), types[j]>>]

SizerSchemas ==
    {SchemaOf(<<>>), SchemaOf(<<T_uchar>>), SchemaOf(<<T_float>>),
     SchemaOf(<<T_float, T_uchar>>), SchemaOf(<<T_float64>>)}

\* 10,000 vertices of 32 bytes, a 120-byte header, a 566-byte target
Scenario ==
    [targetSizeBytes |-> 566, headerSize |-> 120,
     propertyTypes |-> SchemaOf([j \in 1..8 |-> T_float]),
     vertexCount |-> 10000]

SizerInputs ==
    {Scenario} \cup
    [targetSizeBytes : 1..MaxSizerTarget,
     headerSize : {SizerHeaderSize, SizerHeaderSize + 1},
     propertyTypes : SizerSchemas,
     vertexCount : 0..MaxSizerVertices]

SizerInit ==
    /\ inputFile = <<>>
    /\ chunkDir = EmptyDir
    /\ groupDir = EmptyDir
    /\ headerInfo = NoFile
    /\ manifest = NoFile
    /\ \E in \in SizerInputs :
        /\ config = [operation |-> "split",
                     targetSizeBytes |-> in.targetSizeBytes, groupSize |-> -1]
        /\ proc = [NewProcesser EXCEPT
                     !.vertexCount = Fin(in.vertexCount),
                     !.propertyTypes = in.propertyTypes]
        /\ sp = [NoSplit EXCEPT !.headerSize = in.headerSize]
    /\ pc = "split"
    /\ splitResult = NoResult
    /\ cg = NoGroups
    /\ groupsResult = NoResult
    /\ runs = 1
    /\ faults = 0
    /\ emitted = {}

\* the sizing of split, the header's length and the schema being given
SizerSplit ==
    /\ pc = "split"
    /\ LET bytesPerVertex == BytesPerVertex(proc.propertyTypes)
           verticesPerChunk ==
               VerticesPerChunk(config.targetSizeBytes, sp.headerSize, bytesPerVertex)
       IN  sp' = [sp EXCEPT
                    !.verticesPerChunk = verticesPerChunk,
                    !.bytesPerVertex = bytesPerVertex,
                    !.numChunks = NumChunks(proc.vertexCount, verticesPerChunk)]
    /\ pc' = "emit"
    /\ UNCHANGED <<inputFile, chunkDir, groupDir, headerInfo, manifest, config,
                   proc, splitResult, cg, groupsResult, runs, faults, emitted>>

\* one pass of the first loop, without the bytes
SizerEmitChunk ==
    /\ pc = "emit"
    /\ LoopLt(sp.i, sp.numChunks)
    /\ LET c == ChunkRange(sp.i, sp.verticesPerChunk.n, proc.vertexCount.n, <<>>)
       IN  sp' = [sp EXCEPT
                    !.i = @ + 1,
                    !.numVertices = c.numVertices,
                    !.totalProcessedVertices = @ + c.numVertices]
    /\ UNCHANGED <<inputFile, chunkDir, groupDir, headerInfo, manifest, config,
                   proc, pc, splitResult, cg, groupsResult, runs, faults, emitted>>

\* the first loop ends
SizerEmitDone ==
    /\ pc = "emit"
    /\ ~LoopLt(sp.i, sp.numChunks)
    /\ pc' = "sized"
    /\ UNCHANGED <<inputFile, chunkDir, groupDir, headerInfo, manifest, config,
                   proc, sp, splitResult, cg, groupsResult, runs, faults, emitted>>

SizerNext == SizerSplit \/ SizerEmitChunk \/ SizerEmitDone

SizerSpec == SizerInit /\ [][SizerNext]_vars

-----------------------------------------------------------------------------
(* What the claims speak of. *)

\* a line that declares the vertex count: "element vertex N", white space
\* around it allowed
IsVertexCountLine(line) ==
    /\ StartsWith(Trim(line), S_element_vertex_sp)
    /\ DigitRun(Trim(line), Len(S_element_vertex_sp)) # <<>>

\* the input file has a header terminator, and its header then
HasTerminator == IndexOf(inputFile, S_end_header_nl) # -1
SourceHeader ==
    Slice(inputFile, 0, IndexOf(inputFile, S_end_header_nl) + Len(S_end_header_nl))
SourcePayload ==
    Slice(inputFile, IndexOf(inputFile, S_end_header_nl) + Len(S_end_header_nl),
          Len(inputFile))
SourceHeaderLines == StrSplit(SourceHeader, "\n")
HasVertexCountLine ==
    \E j \in 1..Len(SourceHeaderLines) : IsVertexCountLine(SourceHeaderLines[j])

\* the vertex count the input file declares
DeclaredVertexCount ==
    LET j == SetMin({l \in 1..Len(SourceHeaderLines) :
                        IsVertexCountLine(SourceHeaderLines[l])})
    IN  DigitsVal(DigitRun(Trim(SourceHeaderLines[j]), Len(S_element_vertex_sp)))

\* the header of a written file: its bytes up to the terminator
HeaderPart(bytes) ==
    Slice(bytes, 0, IndexOf(bytes, S_end_header_nl) + Len(S_end_header_nl))

RECURSIVE SumOver(_, _)
SumOver(S, dir) ==
    IF S = {} THEN 0
    ELSE LET x == CHOOSE y \in S : TRUE
         IN  ChunkVertices(dir[x]) + SumOver(S \ {x}, dir)

RECURSIVE SumVertexCounts(_)
SumVertexCounts(groups) ==
    IF groups = <<>> THEN 0
    ELSE Head(groups).vertexCount + SumVertexCounts(Tail(groups))

RECURSIVE Concat(_)
Concat(groups) ==
    IF groups = <<>> THEN <<>> ELSE Head(groups).chunks \o Concat(Tail(groups))

\* the scenario of the sizing: 10,000 vertices of 32 bytes, a header of 120
\* bytes, a target of 566 bytes
InScenario ==
    /\ config.targetSizeBytes = Scenario.targetSizeBytes
    /\ sp.headerSize = Scenario.headerSize
    /\ proc.propertyTypes = Scenario.propertyTypes
    /\ proc.vertexCount = Fin(Scenario.vertexCount)

-----------------------------------------------------------------------------
(* C1 *)

\* C1, as amended: once split has sized its chunks, with availableSize =
\* targetSizeBytes - headerSize > 0, verticesPerChunk is
\* max(1, floor(availableSize / (rawBytesPerVertex * (1 - 0.9) * 1.25))), that
\* is max(1, floor(8 * availableSize / rawBytesPerVertex)), rawBytesPerVertex
\* being the sum of the widths getTypeSize gives the schema's types (and
\* +Infinity when that sum is 0); in the scenario split uses 111 vertices per
\* chunk and emits 91 chunks, the last of 10 vertices.
C1_Sizing ==
    pc \in {"emit", "sized"} =>
        LET availableSize == config.targetSizeBytes - sp.headerSize
            rawBytesPerVertex == BytesPerVertex(proc.propertyTypes)
        IN  /\ availableSize > 0 =>
                sp.verticesPerChunk =
                    IF rawBytesPerVertex = 0 THEN PosInf
                    ELSE Fin(Max2(1, (8 * availableSize) \div rawBytesPerVertex))
            /\ InScenario =>
                /\ rawBytesPerVertex = 32
                /\ availableSize = 446
                /\ sp.verticesPerChunk = Fin(111)
                /\ sp.numChunks = Fin(91)
                /\ pc = "sized" =>
                    /\ sp.i = 91
                    /\ sp.numVertices = 10
                    /\ sp.totalProcessedVertices = 10000

\* the scenario, all its chunks emitted
C1_Witness == InScenario /\ pc = "sized" /\ sp.i = 91

\* C1, as stated: verticesPerChunk is
\* max(1, floor(availableSize / (rawBytesPerVertex * 0.9 * 4/3))), and the
\* scenario gives 11 vertices per chunk and 910 chunks, the last of 1 vertex.
C1_AsStated ==
    pc \in {"emit", "sized"} =>
        LET availableSize == config.targetSizeBytes - sp.headerSize
            rawBytesPerVertex == BytesPerVertex(proc.propertyTypes)
        IN  /\ (availableSize > 0 /\ rawBytesPerVertex > 0) =>
                sp.verticesPerChunk =
                    Fin(Max2(1, (availableSize * 10 * 3) \div (rawBytesPerVertex * 9 * 4)))
            /\ InScenario =>
                /\ sp.verticesPerChunk = Fin(11)
                /\ sp.numChunks = Fin(910)
                /\ pc = "sized" => sp.i = 910 /\ sp.numVertices = 1

-----------------------------------------------------------------------------
(* C2 *)

\* C2: over an input file with a well-formed header, split sizes its chunks
\* only with targetSizeBytes greater than the header's byte length, and
\* verticesPerChunk is then an integer >= 1; with targetSizeBytes less than or
\* equal to the header's byte length it has failed with a size-budget error
\* and emits no chunk.
C2_SizeBudget ==
    (HasTerminator /\ HasVertexCountLine) =>
        /\ (pc \in {"emit", "verify"} /\ config.targetSizeBytes > sp.headerSize) =>
            /\ IsFin(sp.verticesPerChunk)
            /\ sp.verticesPerChunk.n >= 1
        /\ (pc \in {"emit", "verify"} /\ emitted # {}) =>
            config.targetSizeBytes > sp.headerSize

-----------------------------------------------------------------------------
(* C3 *)

\* C3: when split returns normally, the vertex counts that the chunk files it
\* emitted declare add up to the vertex count the source file declares; when
\* it fails on a mismatch, the difference it reports is not zero and is the
\* distance between the two totals.
C3_SumOrMismatch ==
    (HasTerminator /\ HasVertexCountLine) =>
        /\ splitResult.status = "returned" =>
            SumOver(emitted, chunkDir) = DeclaredVertexCount
        /\ splitResult.status = "threw" =>
            /\ splitResult.difference > 0
            /\ splitResult.difference = Abs(DeclaredVertexCount - sp.verifiedVertices)

-----------------------------------------------------------------------------
(* C4 *)

\* two headers differ on vertex-count lines only
SameButVertexCount(a, b) ==
    LET la == StrSplit(a, "\n")
        lb == StrSplit(b, "\n")
    IN  /\ Len(la) = Len(lb)
        /\ \A j \in 1..Len(la) : la[j] = lb[j] \/ IsVertexCountLine(la[j])

\* C4: a split that emitted chunks, followed in the same invocation by
\* createGroups with groupSize = -1 and no I/O error, writes one group file,
\* whose payload is the source payload byte for byte and whose header differs
\* from the source header on the vertex-count line only.
C4_RoundTrip ==
    ( /\ groupsResult.status = "returned"
      /\ splitResult.status = "returned"
      /\ config.groupSize = -1
      /\ faults = 0
      /\ emitted # {} ) =>
        /\ Len(cg.attempted) = 1
        /\ 0 \in DOMAIN groupDir
        /\ ReadChunkPly(groupDir[0]) = SourcePayload
        /\ SameButVertexCount(SourceHeader, HeaderPart(groupDir[0]))

-----------------------------------------------------------------------------
(* C5 *)

\* C5: the groups createGroups built partition 0..n-1, n the number of chunk
\* files: in run order they list 0, 1, ..., n-1, each holds at most groupSize
\* indices and all but the last exactly groupSize, their ids are 0, 1, 2, ...,
\* groupSize = -1 gives exactly one group of all n chunks, and the manifest's
\* totalGroups is the number of groups built.
C5_Partition ==
    groupsResult.status = "returned" =>
        LET groups == cg.attempted
        IN  /\ Concat(groups) = [j \in 1..cg.files |-> j - 1]
            /\ \A g \in 1..Len(groups) :
                /\ groups[g].groupId = g - 1
                /\ Len(groups[g].chunks) >= 1
                /\ config.groupSize # -1 =>
                    /\ Len(groups[g].chunks) <= config.groupSize
                    /\ g < Len(groups) => Len(groups[g].chunks) = config.groupSize
            /\ config.groupSize = -1 =>
                /\ Len(groups) = 1
                /\ Len(groups[1].chunks) = cg.files
            /\ manifest.totalGroups = Fin(Len(groups))

-----------------------------------------------------------------------------
(* C6 *)

\* C6: after successful splits and a createGroups without I/O error, the
\* chunks createGroups merged are the chunks the latest split emitted, and
\* the vertex counts of the groups add up to the vertex count that split
\* recorded in header_info.json.
C6_LatestSplitOnly ==
    ( /\ groupsResult.status = "returned"
      /\ headerInfo.exists
      /\ IsFin(headerInfo.vertexCount)
      /\ faults = 0 ) =>
        /\ {Concat(cg.attempted)[j] : j \in 1..Len(Concat(cg.attempted))} = emitted
        /\ SumVertexCounts(cg.groupsMetadata) = headerInfo.vertexCount.n

-----------------------------------------------------------------------------
(* C7 *)

\* the header with only the numeral of its vertex-count line replaced
NumeralRewritten(header, numVertices) ==
    LET lines == StrSplit(header, "\n")
    IN  StrJoin([j \in 1..Len(lines) |->
                    IF IsVertexCountLine(lines[j])
                    THEN RewriteNumeralOnly(lines[j], numVertices)
                    ELSE lines[j]], "\n")

\* C7: the header of the chunk file that split wrote last is the original
\* header with only the numeral of its vertex-count line changed, every other
\* byte kept, and it ends with a newline.
C7_OnlyNumeral ==
    (pc = "emit" /\ sp.i > 0) =>
        LET header == HeaderPart(chunkDir[sp.i - 1])
        IN  /\ header = NumeralRewritten(proc.originalHeader, sp.numVertices)
            /\ EndsWith(header, <<"\n">>)

-----------------------------------------------------------------------------
(* C8 *)

\* C8: the verification pass visits every chunk, a chunk whose count cannot be
\* read going to failedChunks, and split throws exactly when the sum of the
\* counts it could read differs from the original total vertex count.
C8_AggregateGate ==
    /\ pc = "verify" => Len(sp.failedChunks) <= sp.i
    /\ splitResult.status \in {"returned", "threw"} =>
        /\ sp.i = sp.numChunks.n
        /\ (splitResult.status = "threw") <=> (Fin(sp.verifiedVertices) # proc.vertexCount)

-----------------------------------------------------------------------------
(* C9 *)

\* C9: with an input file that has no header terminator or no vertex-count
\* line, split does not get past the parsing of the header: it writes no
\* chunk file and no header_info.json, and does not return normally.
C9_HeaderParseError ==
    (~HasTerminator \/ ~HasVertexCountLine) =>
        /\ pc \notin {"emit", "verify"}
        /\ splitResult.status # "returned"
        /\ ~headerInfo.exists
        /\ chunkDir = EmptyDir

-----------------------------------------------------------------------------
(* C10 *)

KnownTypes ==
    {T_float32, T_float, T_float64, T_uint8, T_uchar, T_int32, T_int, T_uint32}

\* C10: the width lookup gives 4 for float32, float, int32, int and uint32, 8
\* for float64 and 1 for uint8 and uchar, and split does not get past its
\* sizing with a schema that holds any other type token.
C10_UnknownPropertyType ==
    /\ \A t \in {T_float32, T_float, T_int32, T_int, T_uint32} : GetTypeSize(t) = 4
    /\ GetTypeSize(T_float64) = 8
    /\ \A t \in {T_uint8, T_uchar} : GetTypeSize(t) = 1
    /\ (\E j \in 1..Len(proc.propertyTypes) : proc.propertyTypes[j][2] \notin KnownTypes) =>
        /\ pc \notin {"emit", "verify"}
        /\ splitResult.status # "returned"

-----------------------------------------------------------------------------
(* C11 *)

\* C11: createGroups started with no header in memory and no header_info.json
\* throws at once, telling the caller to run split first: its step writes no
\* group file and no chunks_metadata.json, and no group is ever attempted in
\* an invocation that ended so.
C11_MissingHeader ==
    [][ (pc = "createGroups" /\ proc.originalHeader = <<>> /\ ~headerInfo.exists) =>
            /\ pc' = "idle"
            /\ groupsResult' =
                  [status |-> "threw",
                   error |-> "Header information not found. Please run split operation first."]
            /\ cg' = NoGroups
            /\ groupDir' = groupDir
            /\ manifest' = manifest ]_vars

\* a merge that found neither a header in memory nor header_info.json
C11_Witness ==
    /\ groupsResult.status = "threw"
    /\ config.operation = "merge"
    /\ ~headerInfo.exists
    /\ ~manifest.exists
    /\ groupDir = EmptyDir

-----------------------------------------------------------------------------
(* C12 *)

\* C12: a group whose merge threw or whose merged file failed verification
\* is in failedGroups with its groupId and an error, and the run goes on: the
\* only throw of createGroups is the missing header, before any group; when
\* createGroups returns after a failure every group 0, 1, ... of the
\* directory has been attempted, the manifest is written with the same
\* failedGroups, and in the result and in the manifest successfulGroups plus
\* the number of failedGroups is totalGroups.
C12_FailedGroupRecorded ==
    /\ pc \in {"group", "groupVerify"} =>
        /\ Len(cg.failedGroups) = cg.failureCount
        /\ Len(cg.attempted) =
              cg.successCount + cg.failureCount + (IF pc = "groupVerify" THEN 1 ELSE 0)
        /\ \A f \in 1..Len(cg.failedGroups) :
              /\ DOMAIN cg.failedGroups[f] = {"groupId", "error"}
              /\ \E a \in 1..Len(cg.attempted) :
                    cg.attempted[a].groupId = cg.failedGroups[f].groupId
              /\ \A g \in 1..Len(cg.groupsMetadata) :
                    cg.groupsMetadata[g].groupId # cg.failedGroups[f].groupId
    /\ groupsResult.status = "threw" => cg.attempted = <<>>
    /\ (groupsResult.status = "returned" /\ groupsResult.failedGroups # <<>>) =>
        /\ Len(cg.attempted) = CeilDiv(cg.files, cg.effectiveGroupSize)
        /\ \A a \in 1..Len(cg.attempted) : cg.attempted[a].groupId = a - 1
        /\ manifest.exists
        /\ manifest.failedGroups = groupsResult.failedGroups
        /\ manifest.totalGroups =
              Fin(manifest.successfulGroups + Len(manifest.failedGroups))
        /\ groupsResult.total =
              Fin(groupsResult.success + Len(groupsResult.failedGroups))
        /\ groupsResult.failed = Len(groupsResult.failedGroups)

\* the first of several groups failed, a later one was merged and verified,
\* and createGroups returned
C12_Witness ==
    /\ groupsResult.status = "returned"
    /\ Len(groupsResult.failedGroups) = 1
    /\ groupsResult.failedGroups[1].groupId = 0
    /\ groupsResult.success >= 1
    /\ cg.files % cg.effectiveGroupSize # 0

-----------------------------------------------------------------------------
(* C13 *)

\* the group ids of a list of records with a groupId field
GroupIdsOf(list) == {list[j].groupId : j \in 1..Len(list)}

\* C13, as amended: the `groups` list of the manifest that createGroups
\* wrote holds one entry for each group that was merged and passed
\* verification, and none for a failed group, which is in failedGroups only,
\* with its groupId and error; the entries are in ascending group id order,
\* each with the group's id, its output filename, the vertex count of its
\* merge and the index and filename of each of its chunks; the listed and the
\* failed ids together are 0 .. (groups attempted - 1).
C13_SuccessfulGroupsListed ==
    groupsResult.status = "returned" =>
        /\ manifest.exists
        /\ manifest.groups = groupsResult.groups
        /\ Len(manifest.groups) = manifest.successfulGroups
        /\ GroupIdsOf(manifest.groups) \cap GroupIdsOf(manifest.failedGroups) = {}
        /\ GroupIdsOf(manifest.groups) \cup GroupIdsOf(manifest.failedGroups)
              = 0..(Len(cg.attempted) - 1)
        /\ \A f \in 1..Len(manifest.failedGroups) :
              DOMAIN manifest.failedGroups[f] = {"groupId", "error"}
        /\ \A g \in 1..Len(manifest.groups) :
              LET e == manifest.groups[g]
                  a == cg.attempted[e.groupId + 1]
              IN  /\ DOMAIN e = {"groupId", "path", "vertexCount", "chunks"}
                  /\ g > 1 => manifest.groups[g - 1].groupId < e.groupId
                  /\ a.groupId = e.groupId
                  /\ e.path = <<"g", "r", "o", "u", "p", "_", "0", "0", "0", "0", "0">>
                                \o IntToString(e.groupId) \o <<".", "p", "l", "y">>
                  /\ e.vertexCount = SumOver({a.chunks[j] : j \in 1..Len(a.chunks)}, chunkDir)
                  /\ Len(e.chunks) = Len(a.chunks)
                  /\ \A j \in 1..Len(a.chunks) :
                        /\ e.chunks[j].index = a.chunks[j]
                        /\ e.chunks[j].filename = ChunkFileName(a.chunks[j])

\* a run of several groups, one of them failed, the manifest written
C13_Witness ==
    /\ groupsResult.status = "returned"
    /\ Len(manifest.failedGroups) = 1
    /\ Len(manifest.groups) >= 1
    /\ Len(cg.attempted) = Len(manifest.groups) + 1
    /\ cg.effectiveGroupSize = 2

\* C13, as stated: the `groups` list of the manifest holds one entry for each
\* group id in 0 .. totalGroups - 1, failed groups included.
C13_AsStated ==
    (groupsResult.status = "returned" /\ IsFin(manifest.totalGroups)) =>
        \A id \in 0..(manifest.totalGroups.n - 1) :
            Cardinality({g \in 1..Len(manifest.groups) :
                            manifest.groups[g].groupId = id}) = 1

-----------------------------------------------------------------------------
(* C14 *)

\* the payloads of the chunk files 0 .. n-1, one after the other
RECURSIVE PayloadsUpTo(_, _)
PayloadsUpTo(n, dir) ==
    IF n = 0 THEN <<>>
    ELSE PayloadsUpTo(n - 1, dir) \o ReadChunkPly(dir[n - 1])

\* C14: with a total vertex count T >= 1 and v >= 1 vertices per chunk, the
\* chunks split has written so far are 0 .. i-1; chunk j declares
\* min((j+1)*v, T) - j*v vertices, which is v for every chunk but the last
\* and between 1 and v for the last, and carries the payload bytes of the
\* vertices j*v .. min((j+1)*v, T) - 1; once the loop has ended there are
\* ceil(T / v) chunks, and their payloads in index order make up the
\* original payload.
C14_ChunkRanges ==
    ( /\ pc \in {"emit", "verify"}
      /\ IsFin(proc.vertexCount) /\ proc.vertexCount.n >= 1
      /\ IsFin(sp.verticesPerChunk) /\ sp.verticesPerChunk.n >= 1 ) =>
        LET T == proc.vertexCount.n
            v == sp.verticesPerChunk.n
            width == Len(sp.vertexData) \div T
            n == IF pc = "emit" THEN sp.i ELSE CeilDiv(T, v)
        IN  /\ emitted = 0..(n - 1)
            /\ n <= CeilDiv(T, v)
            /\ \A j \in emitted :
                  LET first == j * v
                      last == Min2((j + 1) * v, T)
                  IN  /\ ChunkVertices(chunkDir[j]) = last - first
                      /\ last - first >= 1 /\ last - first <= v
                      /\ j < CeilDiv(T, v) - 1 => last - first = v
                      /\ ReadChunkPly(chunkDir[j]) =
                            Slice(sp.vertexData, first * width, last * width)
            /\ pc = "verify" =>
                  /\ PayloadsUpTo(n, chunkDir) = sp.vertexData
                  /\ HasTerminator => sp.vertexData = SourcePayload
                  /\ sp.totalProcessedVertices = T

\* three vertices split two to a chunk: a full chunk and a shorter last one
C14_Witness ==
    /\ pc = "verify"
    /\ proc.vertexCount = Fin(3)
    /\ sp.verticesPerChunk = Fin(2)
    /\ emitted = {0, 1}
    /\ ChunkVertices(chunkDir[1]) = 1

-----------------------------------------------------------------------------
(* C15 *)

\* C15: header_info.json is written by one step only, the one in which split
\* returns, hence at most once in a run: at that step both loops have ended,
\* every chunk of the run has been emitted, and the gate on the totals has
\* not fired; every other step, the one in which split throws its mismatch
\* error included, leaves header_info.json as it was, whatever chunk files
\* have been written.
C15_HeaderInfoAtEnd ==
    [][ /\ (headerInfo' # headerInfo \/ splitResult'.status = "returned") =>
              \/ UNCHANGED <<headerInfo, splitResult>>
              \/ /\ pc = "verify"
                 /\ splitResult.status = "none"
                 /\ splitResult'.status = "returned"
                 /\ ~LoopLt(sp.i, sp.numChunks)
                 /\ \A j \in 0..Cardinality(DOMAIN chunkDir) :
                       LoopLt(j, sp.numChunks) => j \in emitted
                 /\ ~(IsFin(proc.vertexCount) /\ proc.vertexCount.n # sp.verifiedVertices)
                 /\ headerInfo'.exists
                 /\ headerInfo'.originalHeader = proc.originalHeader
        /\ (splitResult.status = "none" /\ splitResult'.status = "threw") =>
              /\ headerInfo' = headerInfo
              /\ chunkDir' = chunkDir
              /\ IsFin(proc.vertexCount)
              /\ proc.vertexCount.n # sp.verifiedVertices ]_vars

\* a second split that aborted on a mismatch after writing its chunks, the
\* header_info.json of the first split still there
C15_Witness ==
    /\ runs = 2
    /\ splitResult.status = "threw"
    /\ emitted # {}
    /\ headerInfo.exists

-----------------------------------------------------------------------------
(* C16 *)

\* a written file keeps the header invariant: the count its header declares
\* is the number of full records in its payload, a record being as wide as
\* the widths of the file's schema add up to
KeepsHeaderInvariant(bytes) ==
    LET r == ReadPlyHeader(bytes, NewProcesser)
        width == BytesPerVertex(r.propertyTypes)
    IN  /\ width > 0
        /\ r.vertexCount = Fin(Len(r.vertexData) \div width)

\* C16: every chunk file split wrote and every group file createGroups wrote
\* keeps the header invariant.
C16_HeaderInvariant ==
    /\ \A j \in DOMAIN chunkDir : KeepsHeaderInvariant(chunkDir[j])
    /\ \A g \in DOMAIN groupDir : KeepsHeaderInvariant(groupDir[g])

-----------------------------------------------------------------------------
(* C17 *)

\* every chunk of the running split has been written
AllChunksEmitted ==
    \A j \in 0..Cardinality(DOMAIN chunkDir) : LoopLt(j, sp.numChunks) => j \in emitted

\* C17, as amended: split works in two passes, createGroups item by item.
\* A chunk is written only in the first loop of split, in index order, while
\* no chunk of the run has been verified yet; a chunk's count is read back
\* only in the second loop, in index order, when every chunk of the run has
\* been written, and that step writes no chunk.  A group is merged only when
\* every group attempted before it has been verified or has failed, and the
\* step after a merge is the verification of that very group.
C17_TwoPassSplit ==
    [][ /\ (chunkDir' # chunkDir \/ (pc = "emit" /\ sp'.i # sp.i /\ pc' = "emit")) =>
              /\ pc = "emit" /\ pc' = "emit"
              /\ sp'.i = sp.i + 1
              /\ emitted = 0..(sp.i - 1)
              /\ emitted' = 0..sp.i
              /\ sp.verifiedVertices = 0 /\ sp.failedChunks = <<>>
        /\ (pc = "verify" /\ pc' = "verify" /\ sp'.i # sp.i) =>
              /\ sp'.i = sp.i + 1
              /\ AllChunksEmitted
              /\ chunkDir' = chunkDir
        /\ (groupDir' # groupDir \/ Len(cg'.attempted) > Len(cg.attempted)) =>
              /\ pc = "group"
              /\ Len(cg.attempted) = cg.successCount + cg.failureCount
              /\ Len(cg'.attempted) = Len(cg.attempted) + 1
              /\ pc' = "groupVerify" \/ cg'.failureCount = cg.failureCount + 1
        /\ pc = "groupVerify" =>
              /\ pc' = "group"
              /\ groupDir' = groupDir
              /\ cg'.attempted = cg.attempted
              /\ cg'.successCount + cg'.failureCount = Len(cg.attempted) ]_vars

\* a split of several chunks, then the second group of createGroups merged
\* and awaiting its verification
C17_Witness ==
    /\ pc = "groupVerify"
    /\ Len(cg.attempted) = 2
    /\ splitResult.status = "returned"
    /\ Cardinality(emitted) >= 2

\* C17, as stated, for split: when chunk i+1 is written chunk i has been
\* verified, so with two chunks written at least one has been verified.
C17_AsStated ==
    (pc = "emit" /\ sp.i >= 2) =>
        (sp.verifiedVertices > 0 \/ sp.failedChunks # <<>>)

-----------------------------------------------------------------------------
(* C18 *)

\* loadHeaderInfo in a fresh invocation gives back the fields split holds
HeaderRestored ==
    splitResult.status = "returned" =>
        /\ headerInfo.exists
        /\ LoadHeaderInfo(NewProcesser, headerInfo).proc = proc

\* createGroups keeps a header it has in memory
MemoryHeaderKept ==
    (pc = "createGroups" /\ proc.originalHeader # <<>>) =>
        HeaderForGroups(proc, headerInfo).proc = proc

\* createGroups of a fresh invocation, run with the groupSize of the
\* createGroups before it and without any fault, rewrites each group file
\* and the manifest with the bytes they had
SameGroupsWhenFresh ==
    ( /\ config.operation = "merge"
      /\ pc = "group"
      /\ faults' = 0
      /\ manifest.exists
      /\ manifest.groupSize = config.groupSize ) =>
        /\ groupDir' = groupDir
        /\ manifest' = manifest

\* C18: after a split that returned, loadHeaderInfo restores from
\* header_info.json the header text, the vertex count, the schema in its
\* order and the spherical-harmonics degree that split holds in memory;
\* createGroups loads them only when it has no header in memory; and
\* createGroups in a fresh invocation writes the group files and the manifest
\* that createGroups in the invocation of the split wrote.
C18_CrossInvocation ==
    [][HeaderRestored /\ MemoryHeaderKept /\ SameGroupsWhenFresh]_vars

=============================================================================
